---- MODULE Spec2Model ----
(***************************************************************************)
(* Model of nobel_people_fetcher.py: the console year prompt               *)
(* (get_year_from_user), the NobelApiFetcher object (one GET request, one  *)
(* JSON decode, one scan of the laureates with a print per match) and the  *)
(* __main__ driver.                                                        *)
(*                                                                         *)
(* Text is a tuple of one-character strings where the program parses it    *)
(* (console lines, awardYear values) and a tuple of string fragments       *)
(* elsewhere.  A JSON object is a TLA+ function whose DOMAIN is the set of *)
(* keys present, a JSON array is a sequence.                               *)
(***************************************************************************)
EXTENDS Integers, Sequences, FiniteSets, TLC

VARIABLES pc, entered, year, stdout, log, all_laureates_data, award_year,
          laureate_found, idx, response, requests, calls, exit_code,
          uncaught, out_mark, block_src

vars == <<pc, entered, year, stdout, log, all_laureates_data, award_year,
          laureate_found, idx, response, requests, calls, exit_code,
          uncaught, out_mark, block_src>>

(***************************************************************************)
(* Bounds of the model.                                                    *)
(***************************************************************************)
MaxInputs == 2
MaxRecords == 2
MaxCalls == 2

(***************************************************************************)
(* Python text conversions: int(str) and str(int).                         *)
(***************************************************************************)
Digits == <<"0", "1", "2", "3", "4", "5", "6", "7", "8", "9">>

IsDigit(c) == \E i \in 1..10 : Digits[i] = c

DigitVal(c) == (CHOOSE i \in 1..10 : Digits[i] = c) - 1

RECURSIVE LStrip(_)
LStrip(s) == IF s /= <<>> /\ Head(s) = " " THEN LStrip(Tail(s)) ELSE s

RECURSIVE RStrip(_)
RStrip(s) ==
    IF s /= <<>> /\ s[Len(s)] = " " THEN RStrip(SubSeq(s, 1, Len(s) - 1)) ELSE s

RECURSIVE DigitsValue(_)
DigitsValue(s) ==
    IF s = <<>> THEN 0
    ELSE 10 * DigitsValue(SubSeq(s, 1, Len(s) - 1)) + DigitVal(s[Len(s)])

\* int(text): surrounding blanks are dropped, one sign is allowed, then one
\* or more decimal digits; anything else raises ValueError (ok = FALSE).
PyInt(s) ==
    LET t == RStrip(LStrip(s))
        neg == t /= <<>> /\ Head(t) = "-"
        body == IF t /= <<>> /\ Head(t) \in {"+", "-"} THEN Tail(t) ELSE t
    IN  IF body /= <<>> /\ \A i \in 1..Len(body) : IsDigit(body[i])
        THEN [ok |-> TRUE,
              val |-> IF neg THEN 0 - DigitsValue(body) ELSE DigitsValue(body)]
        ELSE [ok |-> FALSE, val |-> 0]

RECURSIVE NatStr(_)
NatStr(n) ==
    IF n < 10 THEN <<Digits[n + 1]>>
    ELSE Append(NatStr(n \div 10), Digits[(n % 10) + 1])

\* str(n), as an f-string formats an int.
PyStr(n) == IF n < 0 THEN <<"-">> \o NatStr(0 - n) ELSE NatStr(n)

(***************************************************************************)
(* Console input: the lines a user may type at the prompt.                 *)
(***************************************************************************)
MinYear == 2000
MaxYear == 2023

InputLines ==
    { <<"2", "0", "0", "0">>, <<" ", "2", "0", "2", "3">>,
      <<"1", "9", "9", "9">>, <<"2", "0", "2", "4">>,
      <<"2", "0", "x", "3">> }

Prompt == <<"Enter the year from which to search for Nobel Prize winners: ">>
NotAYearMsg == <<"Entered number is not a year between 2000 and 2023!">>
TryAgainMsg == <<"Try again.\n">>
NotANumberMsg == <<"Entered value is not a number! Try again.\n">>

InRangeMutExclusive(v) == MinYear < v /\ v < MaxYear

\* 2000 <= year <= 2023
InRange(v) == MinYear <= v /\ v <= MaxYear

\* One iteration of the loop of get_year_from_user on the line read:
\* ret says whether the function returns, val is the value returned and out
\* the lines the iteration prints after the prompt.
GetYearOutcome(line) ==
    LET p == PyInt(line)
    IN  IF ~p.ok THEN [ret |-> FALSE, val |-> 0, out |-> <<NotANumberMsg>>]
        ELSE IF InRange(p.val)
             THEN [ret |-> TRUE, val |-> p.val, out |-> <<>>]
             ELSE [ret |-> FALSE, val |-> 0, out |-> <<NotAYearMsg, TryAgainMsg>>]

(***************************************************************************)
(* JSON data: laureate records as the API may return them.                 *)
(***************************************************************************)
Has(m, k) == k \in DOMAIN m

Y2000 == <<"2", "0", "0", "0">>
Y2023 == <<"2", "0", "2", "3">>

Affiliation(n) == [name |-> [en |-> <<n>>]]

Prize(y, affs) == [awardYear |-> y, affiliations |-> affs]

\* Complete records.
Complete2000 ==
    [knownName |-> [en |-> <<"Marie Curie">>],
     nobelPrizes |-> <<Prize(Y2000, <<Affiliation("Sorbonne")>>)>>]
Complete2023 ==
    [knownName |-> [en |-> <<"Niels Bohr">>],
     nobelPrizes |-> <<Prize(Y2023, <<Affiliation("Copenhagen")>>)>>]
\* Two prizes: the first of 2023, the second of 2000.
TwoPrizes ==
    [knownName |-> [en |-> <<"John Bardeen">>],
     nobelPrizes |-> <<Prize(Y2023, <<Affiliation("Bell Labs")>>),
                       Prize(Y2000, <<Affiliation("Illinois")>>)>>]
\* awardYear with a leading blank: int() accepts it.
PaddedYear ==
    [knownName |-> [en |-> <<"Max Planck">>],
     nobelPrizes |-> <<Prize(<<" ", "2", "0", "0", "0">>, <<Affiliation("Berlin")>>)>>]
\* Malformed records.
NoPrizesKey == [knownName |-> [en |-> <<"No Prizes">>]]
EmptyPrizes == [knownName |-> [en |-> <<"Empty Prizes">>], nobelPrizes |-> <<>>]
NoKnownName == [nobelPrizes |-> <<Prize(Y2000, <<Affiliation("Sorbonne")>>)>>]
NoAwardYear ==
    [knownName |-> [en |-> <<"No Year">>],
     nobelPrizes |-> <<[affiliations |-> <<Affiliation("Sorbonne")>>]>>]
BadYearText ==
    [knownName |-> [en |-> <<"Bad Year">>],
     nobelPrizes |-> <<Prize(<<"2", "0", "x", "0">>, <<Affiliation("Sorbonne")>>)>>]
NoAffiliationsKey ==
    [knownName |-> [en |-> <<"No Affiliations">>],
     nobelPrizes |-> <<[awardYear |-> Y2000]>>]
EmptyAffiliations ==
    [knownName |-> [en |-> <<"Empty Affiliations">>],
     nobelPrizes |-> <<Prize(Y2000, <<>>)>>]
AffiliationSeOnly ==
    [knownName |-> [en |-> <<"Se Affiliation">>],
     nobelPrizes |-> <<Prize(Y2023, <<[name |-> [se |-> <<"Uppsala">>]]>>)>>]

LaureateRecords ==
    { Complete2000, Complete2023, TwoPrizes, PaddedYear, NoPrizesKey,
      EmptyPrizes, NoKnownName, NoAwardYear, BadYearText,
      NoAffiliationsKey, EmptyAffiliations, AffiliationSeOnly }

FetcherRecords == { Complete2000, Complete2023 }

SeqsUpTo(S, n) == UNION { [1..k -> S] : k \in 0..n }

(***************************************************************************)
(* The outcome of the GET request: a transport failure, a body that is not *)
(* a JSON object, or a JSON object with or without the laureates key.      *)
(***************************************************************************)
ErrorBody == [message |-> <<"There is not any laureate">>]

FailKinds ==
    {"Timeout", "TooManyRedirects", "ConnectionError", "HTTPError", "NonObjectJson"}

OutcomesOver(records) ==
    { [kind |-> k, body |-> ErrorBody] : k \in FailKinds }
        \cup { [kind |-> "ok", body |-> ErrorBody] }
        \cup { [kind |-> "ok", body |-> [laureates |-> s]] :
                  s \in SeqsUpTo(records, MaxRecords) }

Outcomes == OutcomesOver(LaureateRecords)

FetcherOutcomes == OutcomesOver(FetcherRecords)

(***************************************************************************)
(* logging: a call with positional arguments %-formats the message with    *)
(* them when the record is emitted.  Arguments the message has no          *)
(* conversion for make the formatting fail: the handler then writes a      *)
(* "--- Logging error ---" report instead of the level-tagged line.        *)
(***************************************************************************)
Conversions(msg) == Cardinality({ i \in 1..Len(msg) : msg[i] = "%s" })

Logging(level, msg, args) ==
    IF args = <<>> THEN [level |-> level, text |-> msg]
    ELSE IF Conversions(msg) = Len(args)
         THEN [level |-> level, text |-> msg \o args]
         ELSE [level |-> "--- Logging error ---", text |-> msg]

DataNotFoundMsgMutWarning ==
    Logging("WARNING", <<"No 'laureates' in response data">>, <<>>)

DataNotFoundMsg == Logging("ERROR", <<"Laureates data not found!">>, <<>>)

NoLaureatesMsg(y) ==
    Logging("INFO", <<"No laureates were found in ">> \o PyStr(y) \o <<"!">>, <<>>)

FailedToPrintMsg(e) ==
    Logging("ERROR", <<"Failed to print laureate info: ", e>>, <<>>)

\* _get_laureates_data on the outcome o of the request: exit says that the
\* process ends in sys.exit(1), data is the list returned otherwise.
GetLaureatesData(o) ==
    CASE o.kind = "Timeout" ->
            [exit |-> TRUE, data |-> <<>>,
             logs |-> <<Logging("ERROR", <<"Request timed out">>, <<>>)>>]
      [] o.kind = "TooManyRedirects" ->
            [exit |-> TRUE, data |-> <<>>,
             logs |-> <<Logging("ERROR", <<"Too many redirects">>, <<>>)>>]
      [] o.kind \in {"ConnectionError", "HTTPError"} ->
            [exit |-> TRUE, data |-> <<>>,
             logs |-> <<Logging("ERROR", <<"A request error occurred:">>, <<o.kind>>)>>]
      [] o.kind = "NonObjectJson" ->
            [exit |-> TRUE, data |-> <<>>,
             logs |-> <<Logging("ERROR", <<"An unexpected error occurred:">>, <<"TypeError">>)>>]
      [] OTHER ->
            IF Has(o.body, "laureates")
            THEN [exit |-> FALSE, data |-> o.body.laureates, logs |-> <<>>]
            ELSE [exit |-> FALSE, data |-> <<>>,
                  logs |-> <<Logging("WARNING", <<"No 'laureates' in response data">>, <<>>)>>]

(***************************************************************************)
(* The scan of find_specific_year_laureates_info and the display routine.  *)
(***************************************************************************)
Raised(e) == [exc |-> e, val |-> 0]

FirstAwardYearMutLast(laureate_data) ==
    IF ~Has(laureate_data, "nobelPrizes") THEN Raised("KeyError")
    ELSE IF laureate_data.nobelPrizes = <<>> THEN Raised("IndexError")
    ELSE LET last == laureate_data.nobelPrizes[Len(laureate_data.nobelPrizes)]
         IN  IF ~Has(last, "awardYear") THEN Raised("KeyError")
             ELSE LET p == PyInt(last.awardYear)
                  IN  IF p.ok THEN [exc |-> "none", val |-> p.val]
                      ELSE Raised("ValueError")

\* int(laureate_data['nobelPrizes'][0]['awardYear']): the value, or the
\* exception the expression raises.
FirstAwardYear(laureate_data) ==
    IF ~Has(laureate_data, "nobelPrizes") THEN Raised("KeyError")
    ELSE IF laureate_data.nobelPrizes = <<>> THEN Raised("IndexError")
    ELSE IF ~Has(laureate_data.nobelPrizes[1], "awardYear") THEN Raised("KeyError")
    ELSE LET p == PyInt(laureate_data.nobelPrizes[1].awardYear)
         IN  IF p.ok THEN [exc |-> "none", val |-> p.val] ELSE Raised("ValueError")

Caught(key) == [exc |-> "none", out |-> <<>>, logs |-> <<FailedToPrintMsg(key)>>]

Uncaught(e) == [exc |-> e, out |-> <<>>, logs |-> <<>>]

BlockMutSwap(full_name, year_text, affiliations) ==
    << <<"---------------------------------">>,
       <<"Full name: ">> \o affiliations,
       <<"Award year: ">> \o year_text,
       <<"Affiliations: ">> \o full_name,
       <<>> >>

\* The five print calls of the else branch.
Block(full_name, year_text, affiliations) ==
    << <<"---------------------------------">>,
       <<"Full name: ">> \o full_name,
       <<"Award year: ">> \o year_text,
       <<"Affiliations: ">> \o affiliations,
       <<>> >>

\* _print_single_laureate_info: the lines printed, the lines logged and the
\* exception that leaves the routine, if any.  Only KeyError is caught.
PrintSingleLaureateInfo(laureate_data) ==
    IF ~Has(laureate_data, "knownName") THEN Caught("'knownName'")
    ELSE IF ~Has(laureate_data.knownName, "en") THEN Caught("'en'")
    ELSE IF ~Has(laureate_data, "nobelPrizes")
         THEN Caught("\"'nobelPrizes' not found in laureate data\"")
    ELSE IF laureate_data.nobelPrizes = <<>> THEN Uncaught("IndexError")
    ELSE LET prize == laureate_data.nobelPrizes[1]
         IN  IF ~Has(prize, "awardYear") THEN Caught("'awardYear'")
             ELSE IF ~Has(prize, "affiliations") THEN Caught("'affiliations'")
             ELSE IF prize.affiliations = <<>> THEN Uncaught("IndexError")
             ELSE IF ~Has(prize.affiliations[1], "name") THEN Caught("'name'")
             ELSE IF ~Has(prize.affiliations[1].name, "en") THEN Caught("'en'")
             ELSE [exc |-> "none",
                   out |-> Block(laureate_data.knownName.en, prize.awardYear,
                                 prize.affiliations[1].name.en),
                   logs |-> <<>>]

\* One iteration of the for loop: the year test, then the display routine
\* and the found flag for a record that matches.
ScanRecord(laureate_data, y) ==
    LET a == FirstAwardYear(laureate_data)
    IN  IF a.exc /= "none"
        THEN [exc |-> a.exc, found |-> FALSE, out |-> <<>>, logs |-> <<>>]
        ELSE IF a.val = y
             THEN LET d == PrintSingleLaureateInfo(laureate_data)
                  IN  [exc |-> d.exc, found |-> d.exc = "none",
                       out |-> d.out, logs |-> d.logs]
             ELSE [exc |-> "none", found |-> FALSE, out |-> <<>>, logs |-> <<>>]

StoreMutAppend(old, fetched) == old \o fetched

\* The assignment of line 40: the stored list is the list just fetched.
Store(old, fetched) == fetched

(***************************************************************************)
(* State.  pc is the position of the process: "input" (in the loop of      *)
(* get_year_from_user), "construct", "call", "scan" (in the for loop, at   *)
(* record idx), "returned" (no call is running) and "exited".  entered,    *)
(* response, requests, calls, out_mark and block_src record the history:   *)
(* the lines read, the outcome of the last request, the number of requests *)
(* and of calls, the length of stdout when the call began and the          *)
(* positions of the records the call printed.                              *)
(***************************************************************************)
InitCommon ==
    /\ entered = <<>>
    /\ stdout = <<>>
    /\ log = <<>>
    /\ all_laureates_data = <<>>
    /\ award_year = 0
    /\ laureate_found = FALSE
    /\ idx = 0
    /\ response = [kind |-> "none", body |-> ErrorBody]
    /\ requests = 0
    /\ calls = 0
    /\ exit_code = -1
    /\ uncaught = "none"
    /\ out_mark = 0
    /\ block_src = <<>>

\* The process at the start of __main__.
Init == pc = "input" /\ year = 0 /\ InitCommon

\* A NobelApiFetcher just constructed, used as a library object.
InitFetcher == pc = "returned" /\ year = 0 /\ InitCommon

\* One iteration of the loop of get_year_from_user.
GetYear ==
    /\ pc = "input"
    /\ Len(entered) < MaxInputs
    /\ \E line \in InputLines :
          LET r == GetYearOutcome(line)
          IN  /\ entered' = Append(entered, line)
              /\ stdout' = stdout \o <<Prompt>> \o r.out
              /\ year' = IF r.ret THEN r.val ELSE year
              /\ pc' = IF r.ret THEN "construct" ELSE "input"
    /\ UNCHANGED <<log, all_laureates_data, award_year, laureate_found, idx,
                   response, requests, calls, exit_code, uncaught, out_mark,
                   block_src>>

\* input() at the end of the console input: EOFError is not caught.
GetYearEOF ==
    /\ pc = "input"
    /\ stdout' = Append(stdout, Prompt)
    /\ pc' = "exited"
    /\ uncaught' = "EOFError"
    /\ exit_code' = 1
    /\ UNCHANGED <<entered, year, log, all_laureates_data, award_year,
                   laureate_found, idx, response, requests, calls, out_mark,
                   block_src>>

\* NobelApiFetcher().
Construct ==
    /\ pc = "construct"
    /\ all_laureates_data' = <<>>
    /\ pc' = "call"
    /\ UNCHANGED <<entered, year, stdout, log, award_year, laureate_found, idx,
                   response, requests, calls, exit_code, uncaught, out_mark,
                   block_src>>

\* find_specific_year_laureates_info(y) up to the for loop: the request,
\* the assignment of the list, and the else branch of an empty list.
Find(y, outcomes) ==
    \E o \in outcomes :
        LET g == GetLaureatesData(o)
            data == Store(all_laureates_data, g.data)
        IN  /\ requests' = requests + 1
            /\ calls' = calls + 1
            /\ response' = o
            /\ award_year' = y
            /\ out_mark' = Len(stdout)
            /\ block_src' = <<>>
            /\ IF g.exit
               THEN /\ log' = log \o g.logs
                    /\ pc' = "exited"
                    /\ exit_code' = 1
                    /\ UNCHANGED <<all_laureates_data, laureate_found, idx>>
               ELSE /\ all_laureates_data' = data
                    /\ laureate_found' = FALSE
                    /\ exit_code' = exit_code
                    /\ IF data /= <<>>
                       THEN /\ pc' = "scan"
                            /\ idx' = 1
                            /\ log' = log \o g.logs
                       ELSE /\ pc' = "returned"
                            /\ idx' = idx
                            /\ log' = (log \o g.logs) \o <<DataNotFoundMsg>>
            /\ UNCHANGED <<entered, year, stdout, uncaught>>

\* nobel_fetcher.find_specific_year_laureates_info(year) of __main__.
MainCall == pc = "call" /\ Find(year, Outcomes)

\* One iteration of the for loop over the stored list.
ScanStep ==
    /\ pc = "scan"
    /\ idx <= Len(all_laureates_data)
    /\ LET s == ScanRecord(all_laureates_data[idx], award_year)
       IN  IF s.exc /= "none"
           THEN /\ pc' = "exited"
                /\ uncaught' = s.exc
                /\ exit_code' = 1
                /\ UNCHANGED <<stdout, log, laureate_found, idx, block_src>>
           ELSE /\ stdout' = stdout \o s.out
                /\ log' = log \o s.logs
                /\ laureate_found' = (laureate_found \/ s.found)
                /\ block_src' = IF s.out /= <<>> THEN Append(block_src, idx)
                                ELSE block_src
                /\ idx' = idx + 1
                /\ UNCHANGED <<pc, uncaught, exit_code>>
    /\ UNCHANGED <<entered, year, all_laureates_data, award_year, response,
                   requests, calls, out_mark>>

\* The end of the for loop: the message of a scan that found nothing.
ScanEnd ==
    /\ pc = "scan"
    /\ idx > Len(all_laureates_data)
    /\ log' = IF laureate_found THEN log
              ELSE Append(log, NoLaureatesMsg(award_year))
    /\ pc' = "returned"
    /\ UNCHANGED <<entered, year, stdout, all_laureates_data, award_year,
                   laureate_found, idx, response, requests, calls, exit_code,
                   uncaught, out_mark, block_src>>

\* The end of __main__.
MainExit ==
    /\ pc = "returned"
    /\ pc' = "exited"
    /\ exit_code' = 0
    /\ UNCHANGED <<entered, year, stdout, log, all_laureates_data, award_year,
                   laureate_found, idx, response, requests, calls, uncaught,
                   out_mark, block_src>>

Next ==
    \/ GetYear
    \/ GetYearEOF
    \/ Construct
    \/ MainCall
    \/ ScanStep
    \/ ScanEnd
    \/ MainExit

Spec == Init /\ [][Next]_vars

\* A caller's find_specific_year_laureates_info(y) on the same object.
FetcherCall ==
    /\ pc = "returned"
    /\ calls < MaxCalls
    /\ \E y \in {MinYear, MaxYear} : Find(y, FetcherOutcomes)

NextFetcher ==
    \/ FetcherCall
    \/ ScanStep
    \/ ScanEnd

SpecFetcher == InitFetcher /\ [][NextFetcher]_vars

(***************************************************************************)
(* Vocabulary of the properties, stated on the response and the output.    *)
(***************************************************************************)
\* The request of the current call succeeded and its body was decoded.
CallBegun == calls >= 1 /\ response.kind = "ok"

\* The record sequence of the response.
RespRecords ==
    IF Has(response.body, "laureates") THEN response.body.laureates ELSE <<>>

\* The call is over and returned to its caller.
CallReturned == pc = "returned" \/ (pc = "exited" /\ exit_code = 0)

\* The scan ended in an unhandled exception.
ScanCrashed == pc = "exited" /\ calls >= 1 /\ uncaught /= "none"

\* What the current call has printed.
CallOut == SubSeq(stdout, out_mark + 1, Len(stdout))

\* The first prize entry of L has an award year that reads as the integer y.
Matches(L, y) ==
    /\ Has(L, "nobelPrizes")
    /\ L.nobelPrizes /= <<>>
    /\ Has(L.nobelPrizes[1], "awardYear")
    /\ PyInt(L.nobelPrizes[1].awardYear).ok
    /\ PyInt(L.nobelPrizes[1].awardYear).val = y

\* L has the three fields the display routine reads.
Complete(L) ==
    /\ Has(L, "knownName")
    /\ Has(L.knownName, "en")
    /\ Has(L, "nobelPrizes")
    /\ L.nobelPrizes /= <<>>
    /\ Has(L.nobelPrizes[1], "awardYear")
    /\ Has(L.nobelPrizes[1], "affiliations")
    /\ L.nobelPrizes[1].affiliations /= <<>>
    /\ Has(L.nobelPrizes[1].affiliations[1], "name")
    /\ Has(L.nobelPrizes[1].affiliations[1].name, "en")

\* L is complete and its first award year reads as an integer.
WellFormed(L) == Complete(L) /\ PyInt(L.nobelPrizes[1].awardYear).ok

\* The block of a complete record.
ExpectedBlock(L) ==
    IF Complete(L)
    THEN << <<"---------------------------------">>,
            <<"Full name: ">> \o L.knownName.en,
            <<"Award year: ">> \o L.nobelPrizes[1].awardYear,
            <<"Affiliations: ">> \o L.nobelPrizes[1].affiliations[1].name.en,
            <<>> >>
    ELSE <<>>

\* The blocks of the complete records among the first n of R that match y.
RECURSIVE ExpectedOut(_, _, _)
ExpectedOut(R, y, n) ==
    IF n = 0 THEN <<>>
    ELSE ExpectedOut(R, y, n - 1)
            \o (IF Matches(R[n], y) THEN ExpectedBlock(R[n]) ELSE <<>>)

\* The positions among the first n of R whose record matches y, in order.
RECURSIVE MatchingUpTo(_, _, _)
MatchingUpTo(R, y, n) ==
    IF n = 0 THEN <<>>
    ELSE IF Matches(R[n], y) THEN Append(MatchingUpTo(R, y, n - 1), n)
         ELSE MatchingUpTo(R, y, n - 1)

Matching(R, y) == MatchingUpTo(R, y, Len(R))

\* The number of records the scan has dealt with.
Scanned ==
    IF RespRecords = <<>> THEN 0
    ELSE IF CallReturned THEN Len(RespRecords)
    ELSE idx - 1

\* The k-th block of the call's output.
BlockAt(k) == SubSeq(CallOut, 5 * k - 4, 5 * k)

NoLaureatesText(y) == <<"No laureates were found in ">> \o PyStr(y) \o <<"!">>

NoLaureatesCount ==
    Cardinality({ i \in 1..Len(log) :
                    log[i].level = "INFO" /\ log[i].text = NoLaureatesText(award_year) })

DataNotFoundCount ==
    Cardinality({ i \in 1..Len(log) :
                    log[i].level = "ERROR"
                        /\ log[i].text = <<"Laureates data not found!">> })

(***************************************************************************)
(* Properties.                                                             *)
(***************************************************************************)

\* C1 as stated: when a call on a response {"laureates": R} has returned and
\* K records of R have a first-prize award year equal to Y, the call has
\* printed exactly K blocks, the k-th carrying the name, year and affiliation
\* of the k-th matching record.
C1_ExactlyKBlocks ==
    (CallBegun /\ Has(response.body, "laureates") /\ CallReturned) =>
        LET m == Matching(RespRecords, award_year)
        IN  /\ Len(CallOut) = 5 * Len(m)
            /\ \A k \in 1..Len(m) : BlockAt(k) = ExpectedBlock(RespRecords[m[k]])

\* C1, amended: the call prints one block for each record dealt with whose
\* first-prize award year equals Y and that has the three display fields,
\* each block carrying the name, year and affiliation of its record; so at
\* most K blocks, and when every record is well formed the call returns with
\* exactly K blocks.
C1_BlocksOfCompleteMatches ==
    (CallBegun /\ Has(response.body, "laureates")) =>
        LET R == RespRecords
            m == Matching(R, award_year)
        IN  /\ CallOut = ExpectedOut(R, award_year, Scanned)
            /\ Len(CallOut) <= 5 * Len(m)
            /\ (\A i \in 1..Len(R) : WellFormed(R[i])) =>
                  /\ ~ScanCrashed
                  /\ CallReturned =>
                        /\ Len(CallOut) = 5 * Len(m)
                        /\ \A k \in 1..Len(m) : BlockAt(k) = ExpectedBlock(R[m[k]])

\* C1 witness: a call returned having printed one block for two matching
\* records, one of them lacking a display field.
C1_Witness ==
    /\ CallBegun
    /\ pc = "returned"
    /\ Len(RespRecords) = 2
    /\ Len(Matching(RespRecords, award_year)) = 2
    /\ \E i \in 1..2 : ~Complete(RespRecords[i])
    /\ Len(CallOut) = 5

\* C2 as stated: a record without the nobelPrizes key never ends the scan in
\* an unhandled error; once the scan is past it an error has been logged for
\* it, and a call on such a sequence that returns has printed every later
\* complete record that matches the year.
C2_MissingPrizesHandled ==
    (CallBegun /\ Has(response.body, "laureates")) =>
        \A i \in 1..Len(RespRecords) :
            ~Has(RespRecords[i], "nobelPrizes") =>
                /\ ~(ScanCrashed /\ idx = i)
                /\ (Scanned >= i) =>
                      \E j \in 1..Len(log) : log[j].level = "ERROR"
                /\ CallReturned =>
                      CallOut = ExpectedOut(RespRecords, award_year, Len(RespRecords))

\* C3 as stated: when the request fails, an error is logged and the process
\* exits with code 1, after a single request, with no block printed and
\* neither the 'data not found' nor the 'No laureates were found' message.
C3_FailureLoggedAndExit1 ==
    (calls >= 1 /\ response.kind \in FailKinds) =>
        /\ pc = "exited"
        /\ exit_code = 1
        /\ requests = 1
        /\ CallOut = <<>>
        /\ DataNotFoundCount = 0
        /\ NoLaureatesCount = 0
        /\ Len(log) = 1
        /\ log[1].level = "ERROR"

\* The line l reads as an integer of [2000, 2023].
ValidYearLine(l) == PyInt(l).ok /\ 2000 <= PyInt(l).val /\ PyInt(l).val <= 2023

\* What the console shows after the lines read: a prompt per line, followed
\* by the message of its rejection unless the line is a valid year.
RECURSIVE Transcript(_)
Transcript(lines) ==
    IF lines = <<>> THEN <<>>
    ELSE LET l == lines[Len(lines)]
         IN  Transcript(SubSeq(lines, 1, Len(lines) - 1))
                \o <<Prompt>>
                \o (IF ValidYearLine(l) THEN <<>>
                    ELSE IF PyInt(l).ok THEN <<NotAYearMsg, TryAgainMsg>>
                    ELSE <<NotANumberMsg>>)

\* C4: get_year_from_user returns the first line read that is an integer of
\* [2000, 2023]: while it prompts, every line read so far was invalid and
\* was answered by its message and a new prompt; once it has returned, the
\* last line read is valid, every earlier one is not, the value returned is
\* that of the last line and lies in [2000, 2023]; no line read raises an
\* unhandled error.
C4_FirstValidYearReturned ==
    /\ uncaught /= "ValueError" \/ calls >= 1
    /\ pc = "input" =>
          /\ \A i \in 1..Len(entered) : ~ValidYearLine(entered[i])
          /\ stdout = Transcript(entered)
          /\ year = 0
    /\ (pc /= "input" /\ uncaught /= "EOFError") =>
          /\ entered /= <<>>
          /\ ValidYearLine(entered[Len(entered)])
          /\ \A i \in 1..(Len(entered) - 1) : ~ValidYearLine(entered[i])
          /\ year = PyInt(entered[Len(entered)]).val
          /\ year >= 2000 /\ year <= 2023
          /\ SubSeq(stdout, 1, Len(Transcript(entered))) = Transcript(entered)

\* C4 witness: the year 2023 returned for the second line, after an integer
\* out of the range was rejected.
C4_Witness ==
    /\ pc = "construct"
    /\ Len(entered) = 2
    /\ PyInt(entered[1]).ok
    /\ year = 2023

\* C5: a call whose request succeeded with no laureates key or with an empty
\* laureates list is over at once, with the warning of the missing key if
\* the key is missing, then the error 'Laureates data not found!', no block,
\* no 'No laureates were found' message, and exit code 0 at the end.
C5_EmptyResultReported ==
    (CallBegun /\ RespRecords = <<>>) =>
        /\ CallReturned
        /\ uncaught = "none"
        /\ CallOut = <<>>
        /\ NoLaureatesCount = 0
        /\ log = (IF Has(response.body, "laureates") THEN <<>>
                  ELSE <<[level |-> "WARNING",
                          text |-> <<"No 'laureates' in response data">>]>>)
                 \o <<[level |-> "ERROR", text |-> <<"Laureates data not found!">>]>>
        /\ pc = "exited" => exit_code = 0

\* C5 witness: the process has exited after a response without the key.
C5_Witness ==
    /\ CallBegun
    /\ ~Has(response.body, "laureates")
    /\ pc = "exited"
    /\ exit_code = 0

\* C6 as stated: a call on a non-empty sequence none of whose records has a
\* first-prize award year equal to Y ends with no block and with the message
\* 'No laureates were found in Y' logged exactly once, as the last line.
C6_NoMatchReported ==
    (/\ CallBegun
     /\ RespRecords /= <<>>
     /\ Matching(RespRecords, award_year) = <<>>
     /\ pc \in {"returned", "exited"}) =>
        /\ CallOut = <<>>
        /\ NoLaureatesCount = 1
        /\ log[Len(log)].text = NoLaureatesText(award_year)

\* C7 as stated: the display routine, given a record, prints the whole block
\* when the record has the three fields and otherwise logs an error and
\* prints nothing, and returns normally either way: no record whose year
\* matched ends the scan in an unhandled error.
C7_DisplayAllOrNothing ==
    (CallBegun /\ Has(response.body, "laureates")) =>
        /\ CallOut = ExpectedOut(RespRecords, award_year, Scanned)
        /\ ~(ScanCrashed /\ Matches(RespRecords[idx], award_year))

\* The positions in b increase strictly.
Increasing(b) == \A j, k \in 1..Len(b) : j < k => b[j] < b[k]

\* C8: the blocks of a call come from records in the order of the response,
\* at most one per record, each from a record whose first prize entry has the
\* award year Y; a later prize entry of year Y does not get a record printed.
C8_FirstPrizeInOrder ==
    (CallBegun /\ Has(response.body, "laureates")) =>
        /\ Increasing(block_src)
        /\ Len(CallOut) = 5 * Len(block_src)
        /\ \A k \in 1..Len(block_src) :
              /\ block_src[k] \in 1..Len(RespRecords)
              /\ Matches(RespRecords[block_src[k]], award_year)
              /\ BlockAt(k) = ExpectedBlock(RespRecords[block_src[k]])

\* C8 witness: the record with a second prize of 2000 came first and was not
\* printed for the year 2000; the record after it was.
C8_Witness ==
    /\ CallBegun
    /\ pc = "returned"
    /\ award_year = 2000
    /\ Len(RespRecords) = 2
    /\ RespRecords[1] = TwoPrizes
    /\ block_src = <<2>>

\* C9: on one fetcher, each call issues one request and the stored list is
\* the record sequence of the last response decoded, whatever earlier calls
\* stored; what a call prints is decided by its response and its year.
C9_StoredIsLastFetched ==
    /\ requests = calls
    /\ CallBegun =>
          /\ all_laureates_data = RespRecords
          /\ CallOut = ExpectedOut(RespRecords, award_year, Scanned)

\* C9 witness: a second call has returned with one record stored, after a
\* first call that printed.
C9_Witness ==
    /\ calls = 2
    /\ pc = "returned"
    /\ out_mark > 0
    /\ Len(all_laureates_data) = 1

\* C10 as stated: when a call on a non-empty sequence is over, the message
\* 'No laureates were found in Y' has been logged if and only if no record
\* has a first-prize award year equal to Y.
C10_MessageIffNoMatch ==
    (CallBegun /\ RespRecords /= <<>> /\ pc \in {"returned", "exited"}) =>
        (NoLaureatesCount = 1 <=> Matching(RespRecords, award_year) = <<>>)

====
